---- MODULE Spec2Model ----
(***************************************************************************)
(* The run-scheduler of mne_pipeline_hd: RunDialog (function_utils.py)     *)
(* driven by the GUI event loop, one worker of the thread pool and the     *)
(* selection kept by the main window; and the load_* and save_* methods of *)
(* the loading objects (loading.py) with the disk and file_parameters.     *)
(***************************************************************************)
EXTENDS Integers, Sequences, FiniteSets, TLC

\* ------------------------------------------------------------------ bounds
\* At most MaxErrors functions raise in one run.
MaxErrors == 2
\* The Restart button is pressed at most MaxRestarts times.
MaxRestarts == 1
\* RunDialogs open at once that the model counts
MaxDialogs == 2
\* load_* and save_* calls on one loading object
MaxCalls == 3

\* ------------------------------------------------------- program constants
\* Status codes of all_objects (1 in init_lists, 2 and 0 in the calls of
\* mark_current_items).
PENDING == 1
RUNNING == 2
DONE == 0

Range(s) == {s[i] : i \in DOMAIN s}

\* The function table of the controller (functions.csv): name, target and the
\* flags start_thread reads.
pd_funcs ==
    << [name |-> "f_mri",  target |-> "FSMRI", mayavi |-> TRUE,  matplotlib |-> FALSE],
       [name |-> "m_filt", target |-> "MEEG",  mayavi |-> FALSE, matplotlib |-> FALSE],
       [name |-> "m_plot", target |-> "MEEG",  mayavi |-> FALSE, matplotlib |-> TRUE],
       [name |-> "g_avg",  target |-> "Group", mayavi |-> FALSE, matplotlib |-> FALSE],
       [name |-> "o_misc", target |-> "Other", mayavi |-> FALSE, matplotlib |-> FALSE] >>

FuncNames == {pd_funcs[i].name : i \in DOMAIN pd_funcs}

pd_funcs_loc(func) == CHOOSE r \in Range(pd_funcs) : r.name = func

\* ct.fsmri_funcs, ct.meeg_funcs, ct.group_funcs, ct.other_funcs: the index
\* of the rows of pd_funcs with the given target, in table order.
funcs_index(target) ==
    LET rows == SelectSeq(pd_funcs, LAMBDA r : r.target = target)
    IN  [i \in DOMAIN rows |-> rows[i].name]

\* pr.meeg_to_fsmri: the FSMRI assigned to a MEEG (a and c share f, b has no
\* assignment).
meeg_to_fsmri == ("a" :> "f" @@ "c" :> "f")

\* The selections the project can hold when a run is built.
SelFunctionChoices ==
    { {}, {"m_filt", "m_plot"}, {"f_mri", "m_filt", "o_misc"}, FuncNames }
SelFsmriChoices == { <<>>, <<"a">> }
SelMeegChoices == { <<>>, <<"a", "b">> }
SelGroupChoices == { <<"g">> }

\* The function button the user clicks (checks, unchecks) at any time.
ClickedFuncs == {"o_misc"}

\* The exception tuples a function can raise with.
Errs == {"exc"}

\* ------------------------------------------------------------------- state
VARIABLES
    \* RunDialog attributes (init_attributes)
    all_steps, all_objects, current_step, current_type, current_object,
    loaded_fsmri, current_func, errors, error_count, prog_count, paused,
    \* RunDialog widgets (init_ui)
    continue_bt, pause_bt, restart_bt, close_bt, pgbar_value, pgbar_max,
    \* threads: the GUI thread inside a function call, workers of the pool,
    \* worker signals queued for the GUI thread
    gui, pool, signals,
    \* project and settings
    sel_functions, sel_fsmri, sel_meeg, sel_groups, show_plots,
    \* MainWindow attributes; n_dialogs counts the RunDialogs constructed and
    \* not closed (run_dialog follows the first of them)
    run_dialog, pipeline_running, n_dialogs,
    \* history: the queue init_lists built, the steps dispatched in this run
    \* with the object each ran on, the number of the run (restarts so far),
    \* objects constructed in the run, how often the run was resumed
    queue0, run_log, run_no, n_inst, n_resumes,
    \* a loading object: its class, its preset, its data attributes; the disk,
    \* the project's file_parameters and preset, the save_storage setting
    obj_class, p_preset, attrs, files, file_parameters, pr_p_preset, save_storage,
    \* history: the last load_* or save_* call on the object, the load_*
    \* methods that returned on it, the number of calls
    call, loaded, n_calls,
    \* the function get_arguments is called for with the sources it looks at
    \* (its signature, pr.add_kwargs of it, the keys of ct.settings and of
    \* QSettings); history: the last call of get_arguments
    fn, arguments

dialog_vars == << all_steps, all_objects, current_step, current_type, current_object,
                  loaded_fsmri, current_func, errors, error_count, prog_count, paused,
                  continue_bt, pause_bt, restart_bt, close_bt, pgbar_value, pgbar_max,
                  gui, pool, signals, queue0, run_log, run_no, n_inst, n_resumes >>

env_vars == << sel_functions, sel_fsmri, sel_meeg, sel_groups, show_plots >>

mw_vars == << run_dialog, pipeline_running, n_dialogs >>

loading_vars == << obj_class, p_preset, attrs, files, file_parameters, pr_p_preset, save_storage,
                   call, loaded, n_calls, fn, arguments >>

vars == << dialog_vars, env_vars, mw_vars, loading_vars >>

\* ---------------------------------------------------------- loading objects
\* A loading object: its name, its class, its identity and (for a MEEG) the
\* FSMRI it holds.
Obj(name, cls, id, fsmri_name, fsmri_id) ==
    [name |-> name, cls |-> cls, id |-> id, fsmri_name |-> fsmri_name, fsmri_id |-> fsmri_id]

None == Obj("", "None", <<0, 0>>, "", <<0, 0>>)

\* Mutant of MEEG.__init__: the passed fsmri is ignored, the FSMRI of the
\* MEEG is always constructed.
MEEG_constructs_fsmri(name, fsmri, run, n) ==
    IF name \in DOMAIN meeg_to_fsmri
    THEN [obj |-> Obj(name, "MEEG", <<run, n + 1>>, meeg_to_fsmri[name], <<run, n + 2>>),
          n |-> n + 2]
    ELSE [obj |-> Obj(name, "MEEG", <<run, n + 1>>, "None", <<run, n + 2>>), n |-> n + 2]

\* MEEG.__init__: uses the passed fsmri when it has the assigned name, else
\* constructs the assigned FSMRI, or FSMRI('None') on KeyError.  An identity is
\* <<run, k>>: the k-th object constructed in that run; n counts the objects
\* constructed before in the run.
MEEG(name, fsmri, run, n) ==
    IF name \in DOMAIN meeg_to_fsmri
    THEN IF fsmri # None /\ fsmri.name = meeg_to_fsmri[name]
         THEN [obj |-> Obj(name, "MEEG", <<run, n + 1>>, fsmri.name, fsmri.id), n |-> n + 1]
         ELSE [obj |-> Obj(name, "MEEG", <<run, n + 1>>, meeg_to_fsmri[name], <<run, n + 2>>),
               n |-> n + 2]
    ELSE [obj |-> Obj(name, "MEEG", <<run, n + 1>>, "None", <<run, n + 2>>), n |-> n + 2]

\* ------------------------------------------------------------ the dialog
\* The dialog as one value: the handlers below are functions of it.
Self ==
    [all_steps |-> all_steps, all_objects |-> all_objects, current_step |-> current_step,
     current_type |-> current_type, current_object |-> current_object,
     loaded_fsmri |-> loaded_fsmri, current_func |-> current_func, errors |-> errors,
     error_count |-> error_count, prog_count |-> prog_count, paused |-> paused,
     continue_bt |-> continue_bt, pause_bt |-> pause_bt, restart_bt |-> restart_bt,
     close_bt |-> close_bt, pgbar_value |-> pgbar_value, pgbar_max |-> pgbar_max,
     gui |-> gui, pool |-> pool, signals |-> signals,
     queue0 |-> queue0, run_log |-> run_log, run_no |-> run_no, n_inst |-> n_inst,
     n_resumes |-> n_resumes]

\* The project and the settings the handlers read.
Ct ==
    [sel_functions |-> sel_functions, sel_fsmri |-> sel_fsmri, sel_meeg |-> sel_meeg,
     sel_groups |-> sel_groups, show_plots |-> show_plots]

Becomes(d) ==
    /\ all_steps' = d.all_steps
    /\ all_objects' = d.all_objects
    /\ current_step' = d.current_step
    /\ current_type' = d.current_type
    /\ current_object' = d.current_object
    /\ loaded_fsmri' = d.loaded_fsmri
    /\ current_func' = d.current_func
    /\ errors' = d.errors
    /\ error_count' = d.error_count
    /\ prog_count' = d.prog_count
    /\ paused' = d.paused
    /\ continue_bt' = d.continue_bt
    /\ pause_bt' = d.pause_bt
    /\ restart_bt' = d.restart_bt
    /\ close_bt' = d.close_bt
    /\ pgbar_value' = d.pgbar_value
    /\ pgbar_max' = d.pgbar_max
    /\ gui' = d.gui
    /\ pool' = d.pool
    /\ signals' = d.signals
    /\ queue0' = d.queue0
    /\ run_log' = d.run_log
    /\ run_no' = d.run_no
    /\ n_inst' = d.n_inst
    /\ n_resumes' = d.n_resumes

\* Mutant of init_attributes: the object of the last run stays loaded.
init_attributes_keeps_object(d) ==
    [d EXCEPT !.all_steps = <<>>,
              !.all_objects = [n \in {} |-> 0],
              !.current_step = <<>>,
              !.current_func = "",
              !.errors = [k \in {} |-> 0],
              !.error_count = 0,
              !.prog_count = 0,
              !.paused = FALSE]

\* init_attributes: the attributes of a fresh run (the widgets, the worker
\* and the objects constructed so far are not touched).
init_attributes(d) ==
    [d EXCEPT !.all_steps = <<>>,
              !.all_objects = [n \in {} |-> 0],
              !.current_step = <<>>,
              !.current_object = None,
              !.loaded_fsmri = None,
              !.current_func = "",
              !.errors = [k \in {} |-> 0],
              !.error_count = 0,
              !.prog_count = 0,
              !.paused = FALSE]

\* The selected functions of one target, in table order.
sel_funcs(target, ct) ==
    SelectSeq(funcs_index(target), LAMBDA f : f \in ct.sel_functions)

\* The steps one block of init_lists appends: for each object, each function.
block_steps(objs, funcs) ==
    [i \in 1..(Len(objs) * Len(funcs)) |->
        << objs[((i - 1) \div Len(funcs)) + 1], funcs[((i - 1) % Len(funcs)) + 1] >>]

\* The entries one block of init_lists assigns in all_objects.
block_objects(ao, objs, funcs, type) ==
    [n \in (DOMAIN ao) \cup Range(objs) |->
        IF n \in Range(objs)
        THEN [type |-> type, functions |-> [f \in Range(funcs) |-> PENDING], status |-> PENDING]
        ELSE ao[n]]

\* Mutant of init_block: the entries and steps are added without the test
\* that objects and functions are both selected.
init_block_unguarded(d, objs, funcs, type) ==
    [d EXCEPT !.all_objects = block_objects(@, objs, funcs, type),
              !.all_steps = @ \o block_steps(objs, funcs)]

init_block(d, objs, funcs, type) ==
    IF Len(objs) * Len(funcs) # 0
    THEN [d EXCEPT !.all_objects = block_objects(@, objs, funcs, type),
                   !.all_steps = @ \o block_steps(objs, funcs)]
    ELSE d

\* init_lists: the blocks of FSMRI, MEEG, Group and Other (blank object name).
init_lists(d, ct) ==
    LET d1 == init_block(d, ct.sel_fsmri, sel_funcs("FSMRI", ct), "FSMRI")
        d2 == init_block(d1, ct.sel_meeg, sel_funcs("MEEG", ct), "MEEG")
        d3 == init_block(d2, ct.sel_groups, sel_funcs("Group", ct), "Group")
        d4 == init_block(d3, <<"">>, sel_funcs("Other", ct), "Other")
    IN  [d4 EXCEPT !.queue0 = d4.all_steps, !.run_log = <<>>, !.n_inst = 0, !.n_resumes = 0]

\* init_ui: the buttons are enabled, the progress bar spans the queue.
init_ui(d) ==
    [d EXCEPT !.continue_bt = TRUE, !.pause_bt = TRUE, !.restart_bt = TRUE,
              !.close_bt = TRUE, !.pgbar_value = 0, !.pgbar_max = Len(d.all_steps)]

\* mark_current_items: the status of the current object and of the current
\* function in the entry of the current object's name.
mark_current_items(d, status) ==
    LET name == d.current_object.name
    IN  [d EXCEPT !.all_objects[name].status = status,
                  !.all_objects[name].functions =
                      (d.current_func :> status) @@ d.all_objects[name].functions]

\* start_thread, lines 288-316: construct the object of the step.
load_object(d, object_name) ==
    CASE d.current_type = "FSMRI" ->
            LET o == Obj(object_name, "FSMRI", <<d.run_no, d.n_inst + 1>>, "", <<0, 0>>)
            IN  [d EXCEPT !.current_object = o, !.loaded_fsmri = o, !.n_inst = @ + 1]
      [] d.current_type = "MEEG" ->
            LET m == IF object_name \in DOMAIN meeg_to_fsmri
                        /\ d.loaded_fsmri # None
                        /\ d.loaded_fsmri.name = meeg_to_fsmri[object_name]
                     THEN MEEG(object_name, d.loaded_fsmri, d.run_no, d.n_inst)
                     ELSE MEEG(object_name, None, d.run_no, d.n_inst)
            IN  [d EXCEPT !.current_object = m.obj,
                          !.loaded_fsmri = Obj(m.obj.fsmri_name, "FSMRI", m.obj.fsmri_id, "", <<0, 0>>),
                          !.n_inst = m.n]
      [] d.current_type = "Group" ->
            [d EXCEPT !.current_object = Obj(object_name, "Group", <<d.run_no, d.n_inst + 1>>, "", <<0, 0>>),
                      !.n_inst = @ + 1]
      [] d.current_type = "Other" ->
            [d EXCEPT !.current_object = Obj(object_name, "BaseLoading", <<d.run_no, d.n_inst + 1>>, "", <<0, 0>>),
                      !.n_inst = @ + 1]

\* Mutant of runs_in_gui: "or" binds before "and".
runs_in_gui_or_first(func, ct) ==
    (pd_funcs_loc(func).mayavi \/ pd_funcs_loc(func).matplotlib) /\ ct.show_plots

\* start_thread, lines 326-327: the function runs on the GUI thread.
runs_in_gui(func, ct) ==
    pd_funcs_loc(func).mayavi \/ (pd_funcs_loc(func).matplotlib /\ ct.show_plots)

\* Mutant of start_buttons: Restart and Close stay enabled while a step runs.
start_buttons_restart_enabled(d) ==
    [d EXCEPT !.paused = FALSE, !.continue_bt = FALSE, !.pause_bt = TRUE,
              !.restart_bt = TRUE, !.close_bt = TRUE]

\* Mutant of start_buttons: Continue stays enabled while a step runs.
start_buttons_continue_enabled(d) ==
    [d EXCEPT !.paused = FALSE, !.continue_bt = TRUE, !.pause_bt = TRUE,
              !.restart_bt = FALSE, !.close_bt = FALSE]

\* start_thread, lines 273-279: not paused, only Pause is enabled.
start_buttons(d) ==
    [d EXCEPT !.paused = FALSE, !.continue_bt = FALSE, !.pause_bt = TRUE,
              !.restart_bt = FALSE, !.close_bt = FALSE]

\* Mutant of take_step: the first step is read and stays queued.
take_step_keeps_it(d) ==
    LET step == Head(d.all_steps)
    IN  [d EXCEPT !.current_step = step,
                  !.current_type = d.all_objects[step[1]].type]

\* Mutant of take_step: pops the last step of the queue.
take_step_last(d) ==
    LET step == d.all_steps[Len(d.all_steps)]
    IN  [d EXCEPT !.all_steps = SubSeq(@, 1, Len(@) - 1), !.current_step = step,
                  !.current_type = d.all_objects[step[1]].type]

\* start_thread, lines 284-286: pop the first step, look up its type.
take_step(d) ==
    LET step == Head(d.all_steps)
    IN  [d EXCEPT !.all_steps = Tail(@), !.current_step = step,
                  !.current_type = d.all_objects[step[1]].type]

\* Mutant of start_thread: the object is constructed anew for every step.
start_thread_always_loads(d, ct) ==
    LET d0 == start_buttons(d)
    IN  IF Len(d0.all_steps) > 0
        THEN LET d1 == take_step(d0)
                 object_name == d1.current_step[1]
                 d2 == load_object(d1, object_name)
                 d3 == mark_current_items([d2 EXCEPT !.current_func = d1.current_step[2]],
                                          RUNNING)
                 d4 == [d3 EXCEPT !.run_log = Append(@, [step |-> d3.current_step,
                                                         obj |-> d3.current_object])]
             IN  IF runs_in_gui(d4.current_func, ct)
                 THEN [d4 EXCEPT !.gui = "in_func"]
                 ELSE [d4 EXCEPT !.pool = @ + 1]
        ELSE [d0 EXCEPT !.continue_bt = FALSE, !.pause_bt = FALSE,
                        !.restart_bt = TRUE, !.close_bt = TRUE]

\* start_thread up to the call of the function (GUI thread) or the start of
\* the worker (thread pool), or to Finished when the queue is empty.
start_thread(d, ct) ==
    LET d0 == start_buttons(d)
    IN  IF Len(d0.all_steps) > 0
        THEN LET d1 == take_step(d0)
                 object_name == d1.current_step[1]
                 d2 == IF d1.current_object = None \/ d1.current_object.name # object_name
                       THEN load_object(d1, object_name)
                       ELSE d1
                 d3 == mark_current_items([d2 EXCEPT !.current_func = d1.current_step[2]],
                                          RUNNING)
                 d4 == [d3 EXCEPT !.run_log = Append(@, [step |-> d3.current_step,
                                                         obj |-> d3.current_object])]
             IN  IF runs_in_gui(d4.current_func, ct)
                 THEN [d4 EXCEPT !.gui = "in_func"]
                 ELSE [d4 EXCEPT !.pool = @ + 1]
        ELSE [d0 EXCEPT !.continue_bt = FALSE, !.pause_bt = FALSE,
                        !.restart_bt = TRUE, !.close_bt = TRUE]

\* thread_finished that counts and marks the step but dispatches nothing.
thread_finished_no_dispatch(d, ct) ==
    LET d1 == [d EXCEPT !.prog_count = @ + 1, !.pgbar_value = d.prog_count + 1]
    IN  mark_current_items(d1, DONE)

\* Mutant of thread_finished: goes on although Pause was requested.
thread_finished_ignores_pause(d, ct) ==
    LET d1 == [d EXCEPT !.prog_count = @ + 1, !.pgbar_value = d.prog_count + 1]
        d2 == mark_current_items(d1, DONE)
    IN  start_thread(d2, ct)

\* thread_finished: count the step, mark it done, go on unless paused.
thread_finished(d, ct) ==
    LET d1 == [d EXCEPT !.prog_count = @ + 1, !.pgbar_value = d.prog_count + 1]
        d2 == mark_current_items(d1, DONE)
    IN  IF ~d2.paused
        THEN start_thread(d2, ct)
        ELSE [d2 EXCEPT !.continue_bt = TRUE, !.pause_bt = FALSE,
                        !.restart_bt = TRUE, !.close_bt = TRUE]

\* The key of an error: f'{error_count}: {name} <- {func}'.
error_cause(d) == << d.error_count, d.current_object.name, d.current_func >>

\* Mutant of thread_error: the step that raised is marked but not counted.
thread_error_uncounted(d, err, ct) ==
    LET d1 == [d EXCEPT !.errors = (error_cause(d) :> << err, d.error_count >>) @@ @,
                        !.error_count = @ + 1]
        d2 == mark_current_items(d1, DONE)
    IN  IF ~d2.paused
        THEN start_thread(d2, ct)
        ELSE [d2 EXCEPT !.continue_bt = TRUE, !.pause_bt = FALSE,
                        !.restart_bt = TRUE, !.close_bt = TRUE]

\* Mutant of thread_error: the error is stored but not counted.
thread_error_no_count(d, err, ct) ==
    LET d1 == [d EXCEPT !.errors = (error_cause(d) :> << err, d.error_count >>) @@ @]
    IN  thread_finished(d1, ct)

\* Mutant of thread_error: the error is recorded and the run stops there.
thread_error_stops(d, err, ct) ==
    [d EXCEPT !.errors = (error_cause(d) :> << err, d.error_count >>) @@ @,
              !.error_count = @ + 1]

\* thread_error: store the error under its key, count it, go on as finished.
thread_error(d, err, ct) ==
    LET d1 == [d EXCEPT !.errors = (error_cause(d) :> << err, d.error_count >>) @@ @,
                        !.error_count = @ + 1]
    IN  thread_finished(d1, ct)

\* pause_funcs
pause_funcs(d) == [d EXCEPT !.paused = TRUE]

\* restart: fresh attributes and lists, progress bar at 0, start.
restart(d, ct) ==
    LET d1 == init_lists(init_attributes(d), ct)
    IN  start_thread([d1 EXCEPT !.pgbar_value = 0], ct)

\* The attributes before the dialog exists.
Blank ==
    [all_steps |-> <<>>, all_objects |-> <<>>, current_step |-> <<>>,
     current_type |-> "", current_object |-> None, loaded_fsmri |-> None,
     current_func |-> "", errors |-> <<>>, error_count |-> 0, prog_count |-> 0,
     paused |-> FALSE, continue_bt |-> FALSE, pause_bt |-> FALSE,
     restart_bt |-> FALSE, close_bt |-> FALSE, pgbar_value |-> 0, pgbar_max |-> 0,
     gui |-> "idle", pool |-> 0, signals |-> <<>>,
     queue0 |-> <<>>, run_log |-> <<>>, run_no |-> 0, n_inst |-> 0, n_resumes |-> 0]

\* RunDialog.__init__
RunDialog(ct) ==
    start_thread(init_ui(init_lists(init_attributes(Blank), ct)), ct)

\* ----------------------------------------------------------------- actions
\* The history of calls on the loading object: no call yet.
NoCall ==
    [kind |-> "none", method |-> "", attr |-> "", before |-> "unset", again |-> FALSE,
     reads |-> 0,
     ret |-> "None", raised |-> "", written |-> {}, recorded |-> {}]

\* No function is looked at, get_arguments was not called.
NoFunc == [signature |-> << >>, add_kwargs |-> << >>, settings |-> {}, qsettings |-> {}]

NoArguments == [called |-> FALSE, p_preset |-> "", raised |-> "", kwargs |-> << >>]

\* No loading object is looked at.
NoLoading ==
    /\ obj_class = "None"
    /\ p_preset = "Default"
    /\ pr_p_preset = "Default"
    /\ attrs = << >>
    /\ files = << >>
    /\ file_parameters = << >>
    /\ save_storage = FALSE
    /\ call = NoCall
    /\ loaded = {}
    /\ n_calls = 0
    /\ fn = NoFunc
    /\ arguments = NoArguments

\* MainWindow.__init__: no dialog, nothing running.
NoDialog ==
    /\ run_dialog = "None"
    /\ pipeline_running = FALSE
    /\ n_dialogs = 0
    /\ all_steps = Blank.all_steps
    /\ all_objects = Blank.all_objects
    /\ current_step = Blank.current_step
    /\ current_type = Blank.current_type
    /\ current_object = Blank.current_object
    /\ loaded_fsmri = Blank.loaded_fsmri
    /\ current_func = Blank.current_func
    /\ errors = Blank.errors
    /\ error_count = Blank.error_count
    /\ prog_count = Blank.prog_count
    /\ paused = Blank.paused
    /\ continue_bt = Blank.continue_bt
    /\ pause_bt = Blank.pause_bt
    /\ restart_bt = Blank.restart_bt
    /\ close_bt = Blank.close_bt
    /\ pgbar_value = Blank.pgbar_value
    /\ pgbar_max = Blank.pgbar_max
    /\ gui = Blank.gui
    /\ pool = Blank.pool
    /\ signals = Blank.signals
    /\ queue0 = Blank.queue0
    /\ run_log = Blank.run_log
    /\ run_no = Blank.run_no
    /\ n_inst = Blank.n_inst
    /\ n_resumes = Blank.n_resumes

Init ==
    /\ sel_functions \in SelFunctionChoices
    /\ sel_fsmri \in SelFsmriChoices
    /\ sel_meeg \in SelMeegChoices
    /\ sel_groups \in SelGroupChoices
    /\ show_plots \in BOOLEAN
    /\ NoDialog
    /\ NoLoading

\* Every selection of the lists: duplicate-free lists of up to two objects.
ObjectLists(names) ==
    { <<>> } \cup { <<x>> : x \in names }
             \cup { p \in names \X names : p[1] # p[2] }

InitLists ==
    /\ sel_functions \in SUBSET FuncNames
    /\ sel_fsmri \in ObjectLists({"a", "b"})
    /\ sel_meeg \in ObjectLists({"a", "b"})
    /\ sel_groups \in ObjectLists({"g"})
    /\ show_plots \in BOOLEAN
    /\ NoDialog
    /\ NoLoading

\* MainWindow.start: 'Already running!' when pipeline_running is set, else a
\* RunDialog is constructed.  The model follows one dialog at a time: a dialog
\* constructed while that one is shown is only counted.
Start ==
    /\ gui = "idle"
    /\ IF pipeline_running
       THEN UNCHANGED << dialog_vars, mw_vars >>
       ELSE /\ n_dialogs < MaxDialogs
            /\ n_dialogs' = n_dialogs + 1
            /\ IF run_dialog = "shown"
               THEN UNCHANGED << dialog_vars, run_dialog >>
               ELSE Becomes(RunDialog(Ct)) /\ run_dialog' = "shown"
            /\ UNCHANGED pipeline_running
    /\ UNCHANGED << env_vars, loading_vars >>

\* The Close button: close() and closeEvent.
Close ==
    /\ run_dialog = "shown"
    /\ gui = "idle"
    /\ close_bt
    /\ run_dialog' = "closed"
    /\ pipeline_running' = FALSE
    /\ n_dialogs' = n_dialogs - 1
    /\ UNCHANGED << dialog_vars, env_vars, loading_vars >>

\* Worker.run: the function returns or raises in the pool; the worker emits
\* finished or error, queued for the GUI thread.
WorkerRun ==
    /\ pool > 0
    /\ \E sig \in {"finished", "error"} :
          /\ sig = "error" => error_count < MaxErrors
          /\ signals' = Append(signals, sig)
    /\ pool' = pool - 1
    /\ UNCHANGED << all_steps, all_objects, current_step, current_type, current_object,
                    loaded_fsmri, current_func, errors, error_count, prog_count, paused,
                    continue_bt, pause_bt, restart_bt, close_bt, pgbar_value, pgbar_max,
                    gui, queue0, run_log, run_no, n_inst, n_resumes >>
    /\ UNCHANGED << env_vars, mw_vars, loading_vars >>

\* The GUI thread delivers the finished signal of the worker.
OnFinished ==
    /\ run_dialog = "shown"
    /\ gui = "idle"
    /\ signals # <<>>
    /\ Head(signals) = "finished"
    /\ Becomes(thread_finished([Self EXCEPT !.signals = Tail(@)], Ct))
    /\ UNCHANGED << env_vars, mw_vars, loading_vars >>

\* The GUI thread delivers the error signal of the worker.
OnError ==
    /\ run_dialog = "shown"
    /\ gui = "idle"
    /\ signals # <<>>
    /\ Head(signals) = "error"
    /\ \E err \in Errs : Becomes(thread_error([Self EXCEPT !.signals = Tail(@)], err, Ct))
    /\ UNCHANGED << env_vars, mw_vars, loading_vars >>

\* start_thread, lines 329-335: the function called on the GUI thread returns.
SyncReturn ==
    /\ run_dialog = "shown"
    /\ gui = "in_func"
    /\ Becomes(thread_finished([Self EXCEPT !.gui = "idle"], Ct))
    /\ UNCHANGED << env_vars, mw_vars, loading_vars >>

\* start_thread, lines 329-333: the function called on the GUI thread raises.
SyncRaise ==
    /\ run_dialog = "shown"
    /\ gui = "in_func"
    /\ error_count < MaxErrors
    /\ \E err \in Errs : Becomes(thread_error([Self EXCEPT !.gui = "idle"], err, Ct))
    /\ UNCHANGED << env_vars, mw_vars, loading_vars >>

\* The Pause button.
Pause ==
    /\ run_dialog = "shown"
    /\ gui = "idle"
    /\ pause_bt
    /\ Becomes(pause_funcs(Self))
    /\ UNCHANGED << env_vars, mw_vars, loading_vars >>

\* The Continue button.
Continue ==
    /\ run_dialog = "shown"
    /\ gui = "idle"
    /\ continue_bt
    /\ Becomes(start_thread([Self EXCEPT !.n_resumes = IF @ < 2 THEN @ + 1 ELSE @], Ct))
    /\ UNCHANGED << env_vars, mw_vars, loading_vars >>

\* The Restart button.
Restart ==
    /\ run_dialog = "shown"
    /\ gui = "idle"
    /\ restart_bt
    /\ run_no < MaxRestarts
    /\ Becomes(restart([Self EXCEPT !.run_no = @ + 1], Ct))
    /\ UNCHANGED << env_vars, mw_vars, loading_vars >>

\* MainWindow._update_selected_functions: a function is checked or unchecked.
FuncSelected ==
    /\ gui = "idle"
    /\ \E function \in ClickedFuncs, checked \in BOOLEAN :
          /\ checked = (function \notin sel_functions)
          /\ sel_functions' = IF checked THEN sel_functions \cup {function}
                                         ELSE sel_functions \ {function}
    /\ UNCHANGED << dialog_vars, mw_vars, loading_vars, sel_fsmri, sel_meeg, sel_groups, show_plots >>

\* The Show Plots box of the toolbar.
ShowPlotsToggled ==
    /\ gui = "idle"
    /\ show_plots' = ~show_plots
    /\ UNCHANGED << dialog_vars, mw_vars, loading_vars, sel_functions, sel_fsmri, sel_meeg, sel_groups >>

Next ==
    \/ Start
    \/ WorkerRun
    \/ OnFinished
    \/ OnError
    \/ SyncReturn
    \/ SyncRaise
    \/ Pause
    \/ Continue
    \/ Restart
    \/ Close
    \/ FuncSelected
    \/ ShowPlotsToggled

Spec == Init /\ [][Next]_vars

\* A run in which Pause is never pressed (so Continue is never offered),
\* every dispatched function returns or raises, and the event loop delivers
\* every signal.
NextNoPause ==
    \/ Start
    \/ WorkerRun
    \/ OnFinished
    \/ OnError
    \/ SyncReturn
    \/ SyncRaise
    \/ Restart
    \/ Close
    \/ FuncSelected
    \/ ShowPlotsToggled

\* The event loop takes the first queued signal to its handler (OnFinished,
\* OnError).
SignalHandled ==
    /\ run_dialog = "shown"
    /\ gui = "idle"
    /\ signals # << >>
    /\ signals' = Tail(signals)

\* The function called on the GUI thread ends and is counted (SyncReturn,
\* SyncRaise).
SyncDone ==
    /\ run_dialog = "shown"
    /\ gui = "in_func"
    /\ prog_count' = prog_count + 1

SpecNoPause ==
    /\ Init
    /\ [][NextNoPause]_vars
    /\ WF_vars(WorkerRun)
    /\ WF_signals(SignalHandled)
    /\ WF_prog_count(SyncDone)

\* init_lists on every selection: the dialog is constructed, nothing else.
NextLists == Start

SpecLists == InitLists /\ [][NextLists]_vars

\* The runs on MEEG that share an assigned FSMRI: a and c are assigned the
\* FSMRI f, b has no assignment; f is selected in the FSMRI list or not.
InitAssigned ==
    /\ sel_functions \in { {"m_filt"}, {"f_mri", "m_filt"} }
    /\ sel_fsmri \in { <<>>, <<"f">> }
    /\ sel_meeg \in { <<"a", "c", "b">>, <<"a", "b", "c">> }
    /\ sel_groups = <<>>
    /\ show_plots \in BOOLEAN
    /\ NoDialog
    /\ NoLoading

SpecAssigned == InitAssigned /\ [][Next]_vars

\* ------------------------------------------------ load_* and save_* methods
\* pr.parameters: the parameters of each preset.
parameters ==
    ( "Default" :> ("highpass" :> "1" @@ "lowpass" :> "100") @@
      "Fast"    :> ("highpass" :> "1" @@ "lowpass" :> "30") )

Presets == DOMAIN parameters

\* Data handed to save_* by a function; "d0" is what the files hold at first.
Data == {"d1"}

Classes == {"MEEG", "FSMRI", "Group"}

obj_name(c) == IF c = "Group" THEN "g" ELSE "a"

\* load_attributes of each class: the data attributes set to None.
\* (MEEG.load_attributes does not set _morphed_stcs.)
load_attributes(c) ==
    CASE c = "MEEG"  -> [a \in {"_raw", "_raw_filtered", "_erm_filtered", "_events",
                                "_noise_cov", "_connectivity"} |-> "None"]
      [] c = "FSMRI" -> [a \in {"_source_space"} |-> "None"]
      [] c = "Group" -> [a \in {"_ga_tfr"} |-> "None"]

\* load_paths: a path is a directory and a file name (Path(path).name).
Path(dir, name) == [dir |-> dir, name |-> name]

raw_path == Path("save_dir", "a-raw.fif")
raw_filtered_path(preset) == Path("save_dir", "a_" \o preset \o "-filtered-raw.fif")
erm_path == Path("erm", "erm-raw.fif")
erm_filtered_path(preset) == Path("erm", "erm_" \o preset \o "-raw.fif")
events_path(preset) == Path("save_dir", "a_" \o preset \o "-eve.fif")
calm_cov_path(preset) == Path("save_dir", "a_" \o preset \o "-calm-cov.fif")
erm_cov_path(preset) == Path("save_dir", "a_" \o preset \o "-erm-cov.fif")
cov_path(preset) == Path("save_dir", "a_" \o preset \o "-cov.fif")
\* morphed_stc_paths of the one selected trial: a stem, no extension
morphed_stc_path(preset) == Path("save_dir", "a_t_" \o preset \o "-morphed")
source_space_path == Path("bem", "a_oct6-src.fif")
ga_tfr_path(preset) == Path("time-frequency", "g_t_" \o preset \o "_morlet-tfr.h5")

\* The files a load_* of the class reads: present from earlier runs.
load_paths(c, preset) ==
    CASE c = "MEEG"  -> {raw_path, raw_filtered_path(preset), erm_path,
                         erm_filtered_path(preset), events_path(preset)}
      [] c = "FSMRI" -> {source_space_path}
      [] c = "Group" -> {ga_tfr_path(preset)}

\* The object, the disk and the project as one value for the methods below.
Ld ==
    [cls |-> obj_class, p_preset |-> p_preset, attrs |-> attrs, files |-> files,
     file_parameters |-> file_parameters, save_storage |-> save_storage,
     call |-> call, loaded |-> loaded]

\* Entry of a method: what the history keeps of the call.
enter(w, kind, method, attr) ==
    [w EXCEPT !.call = [NoCall EXCEPT !.kind = kind, !.method = method, !.attr = attr,
                                      !.before = IF attr \in DOMAIN w.attrs
                                                 THEN w.attrs[attr] ELSE "unset",
                                      !.again = method \in w.loaded]]

raise(w, exc) == [w EXCEPT !.call.raised = exc]

return(w, method, value) ==
    [w EXCEPT !.call.ret = value, !.loaded = @ \cup {method}]

\* pick_types_helper: the data restricted to the selected channel types.
pick_types_helper(data) ==
    IF data \in {"d0", "d1"} THEN data \o "-picked" ELSE data

\* A library reader and writer: one disk read of the file at path; the file
\* at path holds data afterwards.
exists(w, path) == path \in DOMAIN w.files

read_file(w) == [w EXCEPT !.call.reads = @ + 1]

write_file(w, path, data) ==
    [w EXCEPT !.files = (path :> data) @@ @, !.call.written = @ \cup {path.name}]

\* _update_raw_info: writes into self._raw.info (AttributeError on None).
has_raw(w) == w.attrs["_raw"] # "None"

\* The guarded load:
\*     if self._x is None: self._x = read(path)
\*     return self._x
load_cached(w, method, attr, path) ==
    LET w0 == enter(w, "load", method, attr)
    IN  IF w0.attrs[attr] = "None"
        THEN IF exists(w0, path)
             THEN LET w1 == [read_file(w0) EXCEPT !.attrs[attr] = w0.files[path]]
                  IN  return(w1, method, w1.attrs[attr])
             ELSE raise(w0, "FileNotFoundError")
        ELSE return(w0, method, w0.attrs[attr])

load_raw(w) ==
    LET w0 == enter(w, "load", "load_raw", "_raw")
        w1 == IF w0.attrs["_raw"] = "None"
              THEN [read_file(w0) EXCEPT !.attrs["_raw"] = w0.files[raw_path]]
              ELSE w0
        w2 == [w1 EXCEPT !.attrs["_raw"] = pick_types_helper(@)]
    IN  return(w2, "load_raw", w2.attrs["_raw"])

load_filtered(w) ==
    LET w0 == enter(w, "load", "load_filtered", "_raw_filtered")
        path == raw_filtered_path(w.p_preset)
    IN  IF w0.attrs["_raw_filtered"] = "None" /\ ~exists(w0, path)
        THEN raise(w0, "FileNotFoundError")
        ELSE LET w1 == IF w0.attrs["_raw_filtered"] = "None"
                       THEN [read_file(w0) EXCEPT !.attrs["_raw_filtered"] = w0.files[path]]
                       ELSE w0
                 w2 == [w1 EXCEPT !.attrs["_raw_filtered"] = pick_types_helper(@)]
             IN  IF has_raw(w2)
                 THEN return(w2, "load_filtered", w2.attrs["_raw_filtered"])
                 ELSE raise(w2, "AttributeError")

\* load_erm keeps no attribute: it reads the file on every call.
load_erm(w) ==
    LET w0 == enter(w, "load", "load_erm", "_erm")
    IN  return(read_file(w0), "load_erm", pick_types_helper(w0.files[erm_path]))

load_erm_filtered(w) ==
    load_cached(w, "load_erm_filtered", "_erm_filtered", erm_filtered_path(w.p_preset))

load_events(w) == load_cached(w, "load_events", "_events", events_path(w.p_preset))

\* load_morphed_source_estimates: _morphed_stcs is set only by
\* save_morphed_source_estimates, and the method has no return statement.
load_morphed_source_estimates(w) ==
    LET w0 == enter(w, "load", "load_morphed_source_estimates", "_morphed_stcs")
        path == morphed_stc_path(w.p_preset)
    IN  IF "_morphed_stcs" \notin DOMAIN w0.attrs
        THEN raise(w0, "AttributeError")
        ELSE IF w0.attrs["_morphed_stcs"] = "None"
             THEN IF exists(w0, path)
                  THEN return([read_file(w0) EXCEPT !.attrs["_morphed_stcs"] = w0.files[path]],
                              "load_morphed_source_estimates", "None")
                  ELSE raise(w0, "FileNotFoundError")
             ELSE return(w0, "load_morphed_source_estimates", "None")

load_source_space(w) == load_cached(w, "load_source_space", "_source_space", source_space_path)

load_ga_tfr(w) == load_cached(w, "load_ga_tfr", "_ga_tfr", ga_tfr_path(w.p_preset))

LoadMethods(c) ==
    CASE c = "MEEG"  -> {"load_raw", "load_filtered", "load_erm", "load_erm_filtered",
                         "load_events", "load_morphed_source_estimates"}
      [] c = "FSMRI" -> {"load_source_space"}
      [] c = "Group" -> {"load_ga_tfr"}

load(w, method) ==
    CASE method = "load_raw" -> load_raw(w)
      [] method = "load_filtered" -> load_filtered(w)
      [] method = "load_erm" -> load_erm(w)
      [] method = "load_erm_filtered" -> load_erm_filtered(w)
      [] method = "load_events" -> load_events(w)
      [] method = "load_morphed_source_estimates" -> load_morphed_source_estimates(w)
      [] method = "load_source_space" -> load_source_space(w)
      [] method = "load_ga_tfr" -> load_ga_tfr(w)

\* save_file_params: the entry of the file, filled key by key; getsize raises
\* when no file is at path.
ProvenanceKeys == {"FUNCTION", "NAME", "PATH", "TIME", "SIZE"}

getsize(w, path) == "size of " \o w.files[path]

save_file_params(w, path) ==
    LET file_name == path.name
        head == ( "FUNCTION" :> "caller" @@ "NAME" :> obj_name(w.cls) @@
                  "PATH" :> (path.dir \o "/" \o path.name) @@ "TIME" :> "now" )
        w0 == [w EXCEPT !.call.recorded = @ \cup {file_name}]
    IN  IF exists(w0, path)
        THEN [w0 EXCEPT !.file_parameters =
                 (file_name :> (parameters[w.p_preset] @@ ("SIZE" :> getsize(w, path)) @@ head)) @@ @]
        ELSE raise([w0 EXCEPT !.file_parameters = (file_name :> head) @@ @],
                   "FileNotFoundError")

set_attr(w, attr, data) == [w EXCEPT !.attrs = (attr :> data) @@ @]

save_filtered(w, raw_filtered) ==
    LET w0 == set_attr(enter(w, "save", "save_filtered", "_raw_filtered"),
                       "_raw_filtered", raw_filtered)
        path == raw_filtered_path(w.p_preset)
    IN  IF ~has_raw(w0) THEN raise(w0, "AttributeError")
        ELSE IF ~w0.save_storage
             THEN save_file_params(write_file(w0, path, raw_filtered), path)
             ELSE w0

save_erm_filtered(w, erm_filtered) ==
    LET w0 == set_attr(enter(w, "save", "save_erm_filtered", "_erm_filtered"),
                       "_erm_filtered", erm_filtered)
        path == erm_filtered_path(w.p_preset)
    IN  IF ~w0.save_storage
        THEN save_file_params(write_file(w0, path, erm_filtered), path)
        ELSE w0

save_events(w, events) ==
    LET w0 == set_attr(enter(w, "save", "save_events", "_events"), "_events", events)
        path == events_path(w.p_preset)
    IN  save_file_params(write_file(w0, path, events), path)

CovTypes == {"calm", "epochs", "erm", "other"}

save_noise_covariance(w, noise_cov, cov_type) ==
    LET w0 == set_attr(enter(w, "save", "save_noise_covariance", "_noise_cov"),
                       "_noise_cov", noise_cov)
        path == CASE cov_type = "calm" -> calm_cov_path(w.p_preset)
                  [] cov_type = "epochs" -> cov_path(w.p_preset)
                  [] OTHER -> erm_cov_path(w.p_preset)
    IN  IF cov_type \in {"calm", "epochs", "erm"}
        THEN save_file_params(write_file(w0, path, noise_cov), path)
        ELSE w0

\* The names SourceEstimate.save may give the file it makes from a stem: the
\* stem itself or the stem with the hemisphere suffix.
StcSuffixes == {"", "-lh.stc"}

\* save_morphed_source_estimates, for the one trial: the estimate is saved
\* under the stem and save_file_params is given the stem.
save_morphed_source_estimates(w, morphed_stcs, suffix) ==
    LET w0 == set_attr(enter(w, "save", "save_morphed_source_estimates", "_morphed_stcs"),
                       "_morphed_stcs", morphed_stcs)
        stem == morphed_stc_path(w.p_preset)
    IN  save_file_params(write_file(w0, Path(stem.dir, stem.name \o suffix), morphed_stcs), stem)

\* save_connectivity: np.save(con_path) is called without the array and
\* raises TypeError before anything is written.
save_connectivity(w, con_dict) ==
    raise(set_attr(enter(w, "save", "save_connectivity", "_connectivity"),
                   "_connectivity", con_dict), "TypeError")

save_source_space(w, src) ==
    LET w0 == set_attr(enter(w, "save", "save_source_space", "_source_space"),
                       "_source_space", src)
    IN  save_file_params(write_file(w0, source_space_path, src), source_space_path)

\* save_ga_tfr sets no attribute.
save_ga_tfr(w, ga_tfr) ==
    LET w0 == enter(w, "save", "save_ga_tfr", "_ga_tfr")
        ga_path == ga_tfr_path(w.p_preset)
    IN  save_file_params(write_file(w0, ga_path, ga_tfr), ga_path)

SaveMethods(c) ==
    CASE c = "MEEG"  -> {"save_filtered", "save_erm_filtered", "save_events",
                         "save_noise_covariance", "save_morphed_source_estimates",
                         "save_connectivity"}
      [] c = "FSMRI" -> {"save_source_space"}
      [] c = "Group" -> {"save_ga_tfr"}

save(w, method, data, cov_type, suffix) ==
    CASE method = "save_filtered" -> save_filtered(w, data)
      [] method = "save_erm_filtered" -> save_erm_filtered(w, data)
      [] method = "save_events" -> save_events(w, data)
      [] method = "save_noise_covariance" -> save_noise_covariance(w, data, cov_type)
      [] method = "save_morphed_source_estimates" ->
             save_morphed_source_estimates(w, data, suffix)
      [] method = "save_connectivity" -> save_connectivity(w, data)
      [] method = "save_source_space" -> save_source_space(w, data)
      [] method = "save_ga_tfr" -> save_ga_tfr(w, data)

LdBecomes(w) ==
    /\ attrs' = w.attrs
    /\ files' = w.files
    /\ file_parameters' = w.file_parameters
    /\ call' = w.call
    /\ loaded' = w.loaded

\* BaseLoading.__init__ and the __init__ of the class: the object takes the
\* project's preset; its data attributes are None; the files of earlier runs
\* are on disk.
InitLoading ==
    /\ obj_class \in Classes
    /\ pr_p_preset \in Presets
    /\ p_preset = pr_p_preset
    /\ attrs = load_attributes(obj_class)
    /\ files = [p \in load_paths(obj_class, p_preset) |-> "d0"]
    /\ file_parameters = << >>
    /\ save_storage \in BOOLEAN
    /\ call = NoCall
    /\ loaded = {}
    /\ n_calls = 0
    /\ fn = NoFunc
    /\ arguments = NoArguments
    /\ sel_functions = {}
    /\ sel_fsmri = << >>
    /\ sel_meeg = << >>
    /\ sel_groups = << >>
    /\ show_plots = FALSE
    /\ NoDialog

\* A function calls a load_* method of its object.
Load ==
    /\ obj_class \in Classes
    /\ n_calls < MaxCalls
    /\ \E method \in LoadMethods(obj_class) : LdBecomes(load(Ld, method))
    /\ n_calls' = n_calls + 1
    /\ UNCHANGED << obj_class, p_preset, pr_p_preset, save_storage, fn, arguments >>
    /\ UNCHANGED << dialog_vars, env_vars, mw_vars >>

\* A function calls a save_* method of its object.
Save ==
    /\ obj_class \in Classes
    /\ n_calls < MaxCalls
    /\ \E method \in SaveMethods(obj_class), data \in Data, cov_type \in CovTypes,
          suffix \in StcSuffixes :
          LdBecomes(save(Ld, method, data, cov_type, suffix))
    /\ n_calls' = n_calls + 1
    /\ UNCHANGED << obj_class, p_preset, pr_p_preset, save_storage, fn, arguments >>
    /\ UNCHANGED << dialog_vars, env_vars, mw_vars >>

\* Another parameter preset is selected in the main window.
PresetChanged ==
    /\ obj_class \in Classes
    /\ \E preset \in Presets \ {pr_p_preset} : pr_p_preset' = preset
    /\ UNCHANGED << obj_class, p_preset, attrs, files, file_parameters, save_storage,
                    call, loaded, n_calls, fn, arguments >>
    /\ UNCHANGED << dialog_vars, env_vars, mw_vars >>

NextLoading == Load \/ Save \/ PresetChanged

SpecLoading == InitLoading /\ [][NextLoading]_vars

\* ---------------------------------------------------------- get_arguments
\* The signatures of the functions get_arguments is called for.
Signatures ==
    { << "meeg", "highpass", "lowpass" >>,
      << "fsmri", "p_preset", "img_format", "kwargs" >>,
      << "group", "project", "fs_path", "args" >>,
      << "meeg", "pr", "n_jobs" >>,
      << "meeg", "ct", "highpass" >>,
      << "controller", "lowpass" >> }

\* pr.add_kwargs of the function: nothing, a parameter overridden, a keyword
\* added.
AddKwargs == { << >>, ("lowpass" :> "40"), ("verbose" :> "True") }

\* The keys ct.settings and QSettings can hold.
SettingKeys == {"lowpass", "img_format"}
QSettingKeys == {"img_format", "fs_path"}

\* vars(obj.pr): the attributes of the project.
project_attributes(pr) == ("name" :> "pr.name" @@ "p_preset" :> pr.p_preset)

\* The loading object the function runs on, with the attributes
\* BaseLoading.__init__ sets: the controller it was constructed with is kept
\* as mw, the preset of the project at construction as p_preset.
ArgObj ==
    [name |-> obj_name(obj_class),
     mw |-> [settings |-> fn.settings],
     pr |-> [p_preset |-> pr_p_preset, parameters |-> parameters,
             add_kwargs |-> fn.add_kwargs],
     p_preset |-> p_preset]

hasattr(obj, a) == a \in DOMAIN obj

\* The outcome of resolving one name: a value or an exception.
value(v) == [raised |-> "", value |-> v]
exception(e) == [raised |-> e, value |-> ""]

\* The elif chain of get_arguments for one name (lines 48-72); obj.ct is an
\* attribute look-up on the loading object.
resolve(arg_name, obj, qs) ==
    IF arg_name \in {"ct", "controller"}
    THEN IF hasattr(obj, "ct") THEN value("obj.ct") ELSE exception("AttributeError")
    ELSE IF arg_name \in {"pr", "project"}
    THEN value("obj.pr")
    ELSE IF arg_name \in {"meeg", "fsmri", "group"}
    THEN value("obj")
    ELSE IF arg_name \in DOMAIN project_attributes(obj.pr)
    THEN value(project_attributes(obj.pr)[arg_name])
    ELSE IF arg_name \in DOMAIN obj.pr.parameters[obj.pr.p_preset]
    THEN value(obj.pr.parameters[obj.pr.p_preset][arg_name])
    ELSE IF ~hasattr(obj, "ct")
    THEN exception("AttributeError")
    ELSE IF arg_name \in obj.ct.settings
    THEN value("settings." \o arg_name)
    ELSE IF arg_name \in qs
    THEN value("QS." \o arg_name)
    ELSE exception("RuntimeError")

\* The loop over the names of the signature: stops at the first exception.
RECURSIVE resolve_all(_, _, _, _)
resolve_all(arg_names, obj, qs, keyword_arguments) ==
    IF arg_names = << >>
    THEN [raised |-> "", kwargs |-> keyword_arguments]
    ELSE LET r == resolve(Head(arg_names), obj, qs)
         IN  IF r.raised # ""
             THEN [raised |-> r.raised, kwargs |-> << >>]
             ELSE resolve_all(Tail(arg_names), obj, qs,
                              (Head(arg_names) :> r.value) @@ keyword_arguments)

\* get_arguments: args and kwargs are removed from the names, each name is
\* resolved, the keyword arguments added for the function are set last.
get_arguments(func, obj, qs) ==
    LET arg_names == SelectSeq(func.signature, LAMBDA a : a \notin {"args", "kwargs"})
        r == resolve_all(arg_names, obj, qs, << >>)
    IN  IF r.raised # ""
        THEN r
        ELSE [r EXCEPT !.kwargs = obj.pr.add_kwargs @@ @]

\* A loading object was constructed for a function of the project.
InitArguments ==
    /\ obj_class \in Classes
    /\ pr_p_preset \in Presets
    /\ p_preset = pr_p_preset
    /\ attrs = load_attributes(obj_class)
    /\ files = [p \in load_paths(obj_class, p_preset) |-> "d0"]
    /\ file_parameters = << >>
    /\ save_storage = FALSE
    /\ call = NoCall
    /\ loaded = {}
    /\ n_calls = 0
    /\ fn \in [signature : Signatures, add_kwargs : AddKwargs,
                settings : SUBSET SettingKeys, qsettings : SUBSET QSettingKeys]
    /\ arguments = NoArguments
    /\ sel_functions = {}
    /\ sel_fsmri = << >>
    /\ sel_meeg = << >>
    /\ sel_groups = << >>
    /\ show_plots = FALSE
    /\ NoDialog

\* get_arguments is called for the function on the object.
GetArguments ==
    /\ obj_class \in Classes
    /\ LET r == get_arguments(fn, ArgObj, fn.qsettings)
       IN  arguments' = [called |-> TRUE, p_preset |-> pr_p_preset,
                         raised |-> r.raised, kwargs |-> r.kwargs]
    /\ UNCHANGED << obj_class, p_preset, attrs, files, file_parameters, pr_p_preset,
                    save_storage, call, loaded, n_calls, fn >>
    /\ UNCHANGED << dialog_vars, env_vars, mw_vars >>

NextArguments == GetArguments \/ PresetChanged

SpecArguments == InitArguments /\ [][NextArguments]_vars

\* ------------------------------------------------------------------ claims
\* The steps dispatched but not yet reported: on the GUI thread, in the pool,
\* or reported by a signal the GUI thread has not handled yet.
InExecution == (IF gui = "in_func" THEN 1 ELSE 0) + pool + Len(signals)

StepsOf(log) == [i \in DOMAIN log |-> log[i].step]

Last(seq) == seq[Len(seq)]

\* The dialog shows Finished: nothing runs, nothing is queued, Restart and
\* Close are offered and Continue and Pause are not.
Finished ==
    /\ run_dialog = "shown"
    /\ InExecution = 0
    /\ all_steps = <<>>
    /\ restart_bt /\ close_bt /\ ~continue_bt /\ ~pause_bt

\* The dialog shows Paused: nothing runs, Continue is offered.
Paused ==
    /\ run_dialog = "shown"
    /\ InExecution = 0
    /\ paused
    /\ continue_bt /\ restart_bt /\ close_bt /\ ~pause_bt

\* C1: when the function of a step raises (worker or GUI thread), the error
\* is recorded, the step is counted as after a success, and unless a pause
\* is pending the next queued step is dispatched (or Finished is reached
\* when none is queued); no queued step is dropped.
C1_ErrorThenNextStep ==
    [][error_count' = error_count + 1 =>
          /\ Cardinality(DOMAIN errors') = Cardinality(DOMAIN errors) + 1
          /\ prog_count' = prog_count + 1
          /\ IF paused
             THEN /\ run_log' = run_log
                  /\ all_steps' = all_steps
                  /\ Paused'
             ELSE IF all_steps # <<>>
                  THEN /\ Len(run_log') = Len(run_log) + 1
                       /\ Last(run_log').step = Head(all_steps)
                       /\ all_steps' = Tail(all_steps)
                       /\ InExecution' = 1
                  ELSE /\ run_log' = run_log
                       /\ Finished'
    ]_vars

\* An error of a function run on the GUI thread and an error of a function
\* run by a worker were each followed by the dispatch of the next step.
C1_Witness ==
    /\ \E k \in DOMAIN errors : k[3] = "f_mri" /\ k[1] = 0
    /\ \E k \in DOMAIN errors : k[3] = "m_filt" /\ k[1] = 1
    /\ Len(run_log) >= 3
    /\ Last(run_log).step = << "a", "m_plot" >>

\* C2: at most one step is in execution at any moment.
C2_OneStepAtATime == InExecution <= 1

\* A worker runs with a pause pending, in a run that was resumed before and
\* after a restart.
C2_Witness ==
    /\ pool = 1
    /\ paused
    /\ n_resumes >= 1
    /\ run_no >= 1
    /\ all_steps # <<>>

\* C3: a pause requested while a step runs leaves the step running; the
\* step is then counted and marked, and with the pause pending nothing is
\* dispatched except by Continue or Restart.
C3_PauseFinishesCurrent ==
    [][/\ (run_dialog = "shown" /\ paused' /\ ~paused) =>
            /\ pool' = pool /\ signals' = signals /\ gui' = gui
            /\ run_log' = run_log /\ all_steps' = all_steps
       /\ (run_dialog = "shown" /\ paused /\ InExecution = 1 /\ InExecution' # 1) =>
            /\ prog_count' = prog_count + 1
            /\ pgbar_value' = prog_count'
            /\ all_objects'[current_object.name].functions[current_func] = DONE
            /\ run_log' = run_log
            /\ Paused'
       /\ (run_dialog = "shown" /\ paused /\ run_log' # run_log) =>
            /\ Paused
            /\ continue_bt /\ ~continue_bt'
    ]_vars

\* The run is paused after a step that was running when Pause was pressed,
\* with steps left in the queue.
C3_Witness ==
    /\ Paused
    /\ prog_count >= 1
    /\ all_steps # <<>>
    /\ Len(run_log) = prog_count

\* C4: Continue (Continue enabled before, disabled after, same dialog and run)
\* dispatches the first step not dispatched yet, or reaches Finished when
\* there is none; dispatched and queued steps together stay the queue that
\* was built, so a run resumed any number of times ends having executed
\* exactly that queue.
C4_ContinueTakesNextStep ==
    /\ [][(run_dialog = "shown" /\ continue_bt /\ ~continue_bt' /\ run_no' = run_no) =>
             /\ IF Len(run_log) < Len(queue0)
                THEN /\ run_log' = Append(run_log, Last(run_log'))
                     /\ Last(run_log').step = queue0[Len(run_log) + 1]
                     /\ InExecution' = 1
                ELSE /\ run_log' = run_log
                     /\ Finished'
             /\ StepsOf(run_log') \o all_steps' = queue0
             /\ queue0' = queue0
       ]_vars
    /\ [](Finished => StepsOf(run_log) = queue0)

\* A run of at least four steps is Finished after it was paused and resumed
\* twice.
C4_Witness ==
    /\ Finished
    /\ n_resumes = 2
    /\ Len(queue0) >= 4
    /\ prog_count = Len(queue0)

\* C5: the steps are dispatched in the order of the queue init_lists built,
\* each step at most once in a run.
C5_FifoOnce ==
    /\ Len(run_log) <= Len(queue0)
    /\ \A i \in DOMAIN run_log : run_log[i].step = queue0[i]
    /\ \A i, j \in DOMAIN run_log : i # j => run_log[i].step # run_log[j].step

\* All seven steps of the largest queue were dispatched.
C5_Witness ==
    /\ Len(queue0) = 7
    /\ Len(run_log) = 7
    /\ run_log[1].step = << "a", "f_mri" >>
    /\ run_log[7].step = << "", "o_misc" >>

\* The selected functions that target a type, and the selected objects of a
\* type.
SelectedFor(target) ==
    { f \in sel_functions : \E i \in DOMAIN pd_funcs :
                               pd_funcs[i].name = f /\ pd_funcs[i].target = target }

SelectedObjects(target) ==
    CASE target = "FSMRI" -> Range(sel_fsmri)
      [] target = "MEEG" -> Range(sel_meeg)
      [] target = "Group" -> Range(sel_groups)

ObjectTypes == {"FSMRI", "MEEG", "Group"}

ExpectedSteps ==
    UNION { SelectedObjects(t) \X SelectedFor(t) : t \in ObjectTypes }
        \cup ({""} \X SelectedFor("Other"))

ExpectedObjects ==
    UNION { IF SelectedFor(t) = {} THEN {} ELSE SelectedObjects(t) : t \in ObjectTypes }
        \cup (IF SelectedFor("Other") = {} THEN {} ELSE {""})

\* C6: the queue built by init_lists holds exactly one step for every pair
\* of a selected object and a selected function of the object's type, one
\* step with the blank name for every selected Other function and no other
\* step; all_objects has entries only for the types that contribute steps.
C6_QueueIsCrossProduct ==
    run_dialog = "shown" =>
        /\ Range(queue0) = ExpectedSteps
        /\ Len(queue0) = Cardinality(ExpectedSteps)
        /\ DOMAIN all_objects = ExpectedObjects
        /\ StepsOf(run_log) \o all_steps = queue0

\* The queue of two FSMRI, two MEEG with two functions each and one Other
\* function, while the selected group has no selected function.
C6_Witness ==
    /\ run_dialog = "shown"
    /\ Len(queue0) = 7
    /\ sel_groups = << "g" >>
    /\ SelectedFor("Group") = {}
    /\ sel_fsmri = << "b", "a" >>
    /\ "g" \notin DOMAIN all_objects

\* C7: a function whose execution raised is left with a status other than
\* the status of a function that completed.
C7_ErrorStatusDistinct ==
    \A k \in DOMAIN errors : all_objects[k[2]].functions[k[3]] # DONE

\* C8: Restart is taken from a paused or finished run; it rebuilds the queue
\* from the current selection, empties the error table, zeroes error_count
\* and prog_count, clears paused, and starts with the first step of the new
\* queue on an object constructed in the new run: every status is pending
\* except the running first step's.
C8_RestartResets ==
    [][(run_dialog = "shown" /\ run_no' # run_no) =>
          /\ Paused \/ Finished
          /\ Range(queue0') = ExpectedSteps
          /\ Len(queue0') = Cardinality(ExpectedSteps)
          /\ DOMAIN all_objects' = ExpectedObjects
          /\ DOMAIN errors' = {}
          /\ error_count' = 0
          /\ prog_count' = 0
          /\ pgbar_value' = 0
          /\ ~paused'
          /\ n_inst' <= 2
          /\ loaded_fsmri'.id[1] \in {0, run_no'}
          /\ IF queue0' = <<>>
             THEN /\ run_log' = <<>>
                  /\ current_object' = None
                  /\ Finished'
             ELSE /\ run_log' = << [step |-> queue0'[1], obj |-> current_object'] >>
                  /\ all_steps' = Tail(queue0')
                  /\ current_object'.id = << run_no', 1 >>
                  /\ InExecution' = 1
                  /\ \A n \in DOMAIN all_objects' :
                        /\ all_objects'[n].status =
                              IF n = queue0'[1][1] THEN RUNNING ELSE PENDING
                        /\ \A f \in DOMAIN all_objects'[n].functions :
                              all_objects'[n].functions[f] =
                                 IF << n, f >> = queue0'[1] THEN RUNNING ELSE PENDING
    ]_vars

\* A restarted run whose queue differs in length from the first run's (the
\* progress bar still spans the first queue), at its first step.
C8_Witness ==
    /\ run_no = 1
    /\ queue0 # <<>>
    /\ Len(queue0) # pgbar_max
    /\ pgbar_max > 0
    /\ Len(run_log) = 1
    /\ InExecution = 1

\* C9: the n-th error of a run is stored with index n under a new key;
\* recorded errors are never changed, the indices are 0..error_count-1 and
\* error_count is the number of entries.
C9_ErrorIndices ==
    /\ [](/\ error_count = Cardinality(DOMAIN errors)
          /\ \A k \in DOMAIN errors : errors[k][2] = k[1]
          /\ { errors[k][2] : k \in DOMAIN errors } = 0..(error_count - 1)
          /\ \A k1, k2 \in DOMAIN errors : k1 # k2 => errors[k1][2] # errors[k2][2])
    /\ [][error_count' = error_count + 1 =>
             /\ \E k \in DOMAIN errors' \ DOMAIN errors :
                   /\ DOMAIN errors' = DOMAIN errors \cup {k}
                   /\ errors'[k][2] = error_count
                   /\ k[2] = current_object.name /\ k[3] = current_func
             /\ \A k \in DOMAIN errors : errors'[k] = errors[k]
       ]_vars

\* Two errors are recorded in one run.
C9_Witness ==
    /\ error_count = 2
    /\ \E k1, k2 \in DOMAIN errors : k1[1] = 0 /\ k2[1] = 1 /\ k1[3] = k2[3]

\* C10: a dispatched step runs on the GUI thread, and not in the pool, when
\* its function is flagged mayavi, or matplotlib with show_plots on; any
\* other step is handed to a worker and not run on the GUI thread.
C10_GuiOrPool ==
    /\ [][(run_log' # run_log /\ run_log' # <<>>) =>
             LET row == pd_funcs_loc(Last(run_log').step[2])
             IN  IF row.mayavi \/ (row.matplotlib /\ show_plots)
                 THEN gui' = "in_func" /\ pool' = pool
                 ELSE gui' = "idle" /\ pool' = pool + 1
       ]_vars
    /\ [](gui = "in_func" =>
             /\ pool = 0 /\ signals = <<>>
             /\ pd_funcs_loc(current_func).mayavi
                   \/ (pd_funcs_loc(current_func).matplotlib /\ show_plots))
    /\ [](pool > 0 => ~pd_funcs_loc(current_func).mayavi)

\* A matplotlib function runs on the GUI thread with show_plots on, after a
\* step that ran in the pool.
C10_Witness ==
    /\ gui = "in_func"
    /\ current_func = "m_plot"
    /\ show_plots
    /\ Len(run_log) >= 2
    /\ run_log[Len(run_log) - 1].step[2] = "m_filt"

\* C11: at most one RunDialog run is in progress (constructed and not yet
\* closed) at any time: MainWindow.start constructs no second RunDialog while
\* one is in progress.
C11_OneRunDialog == n_dialogs <= 1

\* C12: a load_* call raises no AttributeError, reads the disk only when the
\* attribute of its artifact is None and never when the same load_* returned
\* before on the object, leaves what it read in the attribute, and returns
\* the attribute's data.
C12_LoadsUseCache ==
    call.kind = "load" =>
        /\ call.raised # "AttributeError"
        /\ call.before \notin {"None", "unset"} => call.reads = 0
        /\ call.again => call.reads = 0
        /\ call.raised = "" =>
              /\ call.attr \in DOMAIN attrs
              /\ attrs[call.attr] # "None"
              /\ call.ret = attrs[call.attr]

\* C13: a save_* call records an entry in file_parameters for exactly the
\* files it wrote, and each entry holds FUNCTION, NAME, PATH, TIME, SIZE and
\* the value of every parameter of the object's preset.
C13_SavesRecordProvenance ==
    call.kind = "save" =>
        /\ call.recorded = call.written
        /\ \A f \in call.written :
              /\ f \in DOMAIN file_parameters
              /\ DOMAIN file_parameters[f] = ProvenanceKeys \cup DOMAIN parameters[p_preset]
              /\ \A k \in DOMAIN parameters[p_preset] :
                    file_parameters[f][k] = parameters[p_preset][k]

\* C15: with every dispatched call terminating and Pause never pressed, a
\* run that was started reaches Finished, with an empty queue, every step of
\* the queue that was built dispatched exactly once and counted.
C15_RunFinishes ==
    (run_dialog = "shown") ~>
        (/\ Finished
         /\ StepsOf(run_log) = queue0
         /\ prog_count = Len(queue0)
         /\ ~paused)

\* A run of at least four steps, one of which raised, is Finished without
\* ever having been paused.
C15_Witness ==
    /\ Finished
    /\ ~paused
    /\ n_resumes = 0
    /\ Len(queue0) >= 4
    /\ error_count >= 1
    /\ StepsOf(run_log) = queue0

\* C16: the steps counted by prog_count, the steps still queued and the step
\* in execution (if any) are together the steps init_lists built for the run:
\* a step is counted once, whether its function returned or raised, and
\* prog_count is the number of steps built when the run is Finished.
C16_ProgressAccounting ==
    /\ prog_count + Len(all_steps) + InExecution = Len(queue0)
    /\ Finished => prog_count = Len(queue0)

\* A step is in execution after an earlier step of the run raised, with
\* steps still queued.
C16_Witness ==
    /\ run_dialog = "shown"
    /\ InExecution = 1
    /\ error_count >= 1
    /\ prog_count >= 2
    /\ all_steps # <<>>

\* The class start_thread is to construct for a function of the target.
ClassOf(target) == IF target = "Other" THEN "BaseLoading" ELSE target

\* C17: every dispatched step ran on an object of the class its function
\* targets: FSMRI, MEEG, Group, or BaseLoading for the other functions.
C17_ObjectOfTargetType ==
    \A i \in DOMAIN run_log :
        run_log[i].obj.cls = ClassOf(pd_funcs_loc(run_log[i].step[2]).target)

\* C18: an object whose status in all_objects is done has every function
\* done: with a function pending or running its status is not done.
C18_DoneObjectHasAllDone ==
    \A n \in DOMAIN all_objects :
        all_objects[n].status = DONE =>
            \A f \in DOMAIN all_objects[n].functions : all_objects[n].functions[f] = DONE

\* C19: in the shown dialog, while a step is in execution only Pause is
\* enabled; with no step in execution the dialog is Paused (Continue, Restart
\* and Close enabled, Pause not) or Finished (Restart and Close enabled,
\* Continue and Pause not); Finished is shown exactly when nothing runs, the
\* queue is empty and no pause is pending.
C19_ButtonsFollowState ==
    run_dialog = "shown" =>
        /\ InExecution >= 1 =>
              pause_bt /\ ~continue_bt /\ ~restart_bt /\ ~close_bt
        /\ InExecution = 0 => Paused \/ Finished
        /\ (InExecution = 0 /\ ~paused) => (Finished /\ all_steps = <<>>)
        /\ continue_bt => Paused
        /\ (restart_bt \/ close_bt) => (Paused \/ Finished)

\* A step is in execution, after the run was paused and resumed, and Pause
\* was pressed again.
C19_Witness ==
    /\ run_dialog = "shown"
    /\ InExecution = 1
    /\ n_resumes >= 1
    /\ paused
    /\ pause_bt

\* C20: the first step of a run is executed on an object constructed in the
\* run; a later step is executed on the object of the step before it when
\* both have the same object name, and else on an object constructed after
\* every object used before.
C20_ReloadOnNameChange ==
    \A i \in DOMAIN run_log :
        IF i = 1
        THEN run_log[i].obj.id = << run_no, 1 >>
        ELSE IF run_log[i].step[1] = run_log[i - 1].step[1]
             THEN run_log[i].obj = run_log[i - 1].obj
             ELSE /\ run_log[i].obj.name = run_log[i].step[1]
                  /\ run_log[i].obj.id[1] = run_no
                  /\ \A j \in 1..(i - 1) : run_log[j].obj.id[2] < run_log[i].obj.id[2]

\* Three steps were dispatched: the selected FSMRI function and a MEEG
\* function of the name selected in both lists on one object, then a step of
\* another name on a new object.
C20_Witness ==
    /\ Len(run_log) >= 3
    /\ run_log[1].step = << "a", "f_mri" >>
    /\ run_log[2].step = << "a", "m_filt" >>
    /\ run_log[2].obj = run_log[1].obj
    /\ run_log[3].step[1] # "a"
    /\ run_log[3].obj.id # run_log[2].obj.id

\* The FSMRI loaded most recently before step i of the run: the object of
\* the latest earlier step when it is a FSMRI, its FSMRI when it is a MEEG;
\* None when no earlier step loaded one.
RECURSIVE LastFsmri(_)
LastFsmri(i) ==
    IF i <= 1
    THEN None
    ELSE LET o == run_log[i - 1].obj
         IN  CASE o.cls = "FSMRI" -> Obj(o.name, "FSMRI", o.id, "", <<0, 0>>)
               [] o.cls = "MEEG" -> Obj(o.fsmri_name, "FSMRI", o.fsmri_id, "", <<0, 0>>)
               [] OTHER -> LastFsmri(i - 1)

\* The identities of the objects the run used before step i.
IdsBefore(i) ==
    UNION { {run_log[j].obj.id, run_log[j].obj.fsmri_id} : j \in 1..(i - 1) }

\* C21: a MEEG loaded for a step holds the FSMRI loaded most recently before
\* in the run when that one has the name assigned to the MEEG in
\* meeg_to_fsmri (the same instance); else it holds a newly constructed FSMRI
\* of the assigned name, or of the name 'None' when the MEEG has no
\* assignment.
C21_FsmriReused ==
    \A i \in DOMAIN run_log :
        LET o == run_log[i].obj
            last == LastFsmri(i)
        IN  (o.cls = "MEEG" /\ (i = 1 \/ run_log[i - 1].obj.id # o.id)) =>
                IF o.name \in DOMAIN meeg_to_fsmri /\ last # None
                   /\ last.name = meeg_to_fsmri[o.name]
                THEN o.fsmri_name = last.name /\ o.fsmri_id = last.id
                ELSE /\ o.fsmri_name = IF o.name \in DOMAIN meeg_to_fsmri
                                       THEN meeg_to_fsmri[o.name] ELSE "None"
                     /\ o.fsmri_id \notin IdsBefore(i) \cup {o.id, <<0, 0>>}

\* The FSMRI f was loaded by its own step; the MEEG a, then the MEEG c hold
\* that instance; the MEEG b, without assignment, holds a new FSMRI 'None'.
C21_Witness ==
    /\ Len(run_log) >= 4
    /\ run_log[1].obj.cls = "FSMRI" /\ run_log[1].obj.name = "f"
    /\ run_log[2].obj.name = "a" /\ run_log[2].obj.fsmri_id = run_log[1].obj.id
    /\ run_log[3].obj.name = "c" /\ run_log[3].obj.fsmri_id = run_log[1].obj.id
    /\ run_log[4].obj.name = "b" /\ run_log[4].obj.fsmri_name = "None"
    /\ run_log[4].obj.fsmri_id # run_log[1].obj.id

\* The names of the signature get_arguments takes from the parameters of a
\* preset and that no added keyword argument overrides.
ParameterNames ==
    { a \in Range(fn.signature) :
        /\ a \notin {"args", "kwargs", "ct", "controller", "pr", "project",
                     "meeg", "fsmri", "group"}
        /\ a \notin DOMAIN project_attributes(ArgObj.pr)
        /\ a \in DOMAIN parameters[p_preset]
        /\ a \notin DOMAIN fn.add_kwargs }

\* C22: the parameter values get_arguments returned for the function are
\* those of the preset of the object the function runs on, the preset
\* load_paths builds its file paths with.
C22_SamePreset ==
    (arguments.called /\ arguments.raised = "") =>
        \A a \in ParameterNames : arguments.kwargs[a] = parameters[p_preset][a]

\* The name of the signature resolved by the first source that has it, in
\* the order: reserved names, attributes of the project, parameters of the
\* project's current preset, controller settings, QSettings.
FirstSource(a, preset) ==
    IF a \in {"ct", "controller"} THEN value("obj.ct")
    ELSE IF a \in {"pr", "project"} THEN value("obj.pr")
    ELSE IF a \in {"meeg", "fsmri", "group"} THEN value("obj")
    ELSE IF a \in {"name", "p_preset"}
         THEN value(IF a = "name" THEN "pr.name" ELSE preset)
    ELSE IF a \in DOMAIN parameters[preset] THEN value(parameters[preset][a])
    ELSE IF a \in fn.settings THEN value("settings." \o a)
    ELSE IF a \in fn.qsettings THEN value("QS." \o a)
    ELSE exception("RuntimeError")

\* C23: a call of get_arguments raises RuntimeError when a name of the
\* signature (args and kwargs left out) is in no source, and else returns
\* each name with the value of its first source, overridden or extended by
\* the keyword arguments added for the function.
C23_ResolutionOrder ==
    arguments.called =>
        LET names == Range(fn.signature) \ {"args", "kwargs"}
            preset == arguments.p_preset
        IN  IF \E a \in names : FirstSource(a, preset).raised # ""
            THEN arguments.raised = "RuntimeError"
            ELSE /\ arguments.raised = ""
                 /\ arguments.kwargs =
                        fn.add_kwargs @@ [a \in names |-> FirstSource(a, preset).value]

====
